---- MODULE Spec2Model ----
(***************************************************************************)
(* Vibe Coder's Catch: the upgrade economy (game_state.py), the fishing    *)
(* line and hook (fishing.py), the fish population (fish.py) and the round *)
(* controller (main.py), as one state machine.                             *)
(*                                                                         *)
(* Depths are kept in half pixels (BASE_LINE_SPEED is 0.5 pixel a frame),  *)
(* so that every depth the program computes is an integer here.            *)
(***************************************************************************)
EXTENDS Integers, Sequences, FiniteSets, TLC

VARIABLES
    \* GameState (game_state.py)
    coins, upgrades, power_ups, unlocked_zones,
    total_fish_caught, total_coins_earned, deepest_depth_reached,
    \* what save_game last wrote to Config.SAVE_FILE
    save_file,
    \* FishingLine (fishing.py); current_depth in half pixels
    current_depth, descending, horizontal_offset, hook_centerx, caught_fish,
    \* FishManager (fish.py)
    all_fish, fm_caught_fish, last_spawn_time, previous_depth,
    \* Game (main.py)
    current_screen, round_active, round_start_time, round_timer, running,
    \* pygame.time.get_ticks(), in milliseconds
    clock,
    \* the value the last call of the operation under study returned
    ret

economy == <<coins, upgrades, power_ups, unlocked_zones,
             total_fish_caught, total_coins_earned, deepest_depth_reached>>

line == <<current_depth, descending, horizontal_offset, hook_centerx, caught_fish>>

fish_manager == <<all_fish, fm_caught_fish, last_spawn_time, previous_depth>>

game == <<current_screen, round_active, round_start_time, round_timer, running>>

vars == <<coins, upgrades, power_ups, unlocked_zones,
          total_fish_caught, total_coins_earned, deepest_depth_reached,
          save_file,
          current_depth, descending, horizontal_offset, hook_centerx, caught_fish,
          all_fish, fm_caught_fish, last_spawn_time, previous_depth,
          current_screen, round_active, round_start_time, round_timer, running,
          clock, ret>>

-----------------------------------------------------------------------------
(* config.py *)

SCREEN_WIDTH == 800
SCREEN_HEIGHT == 600
FPS == 60
BASE_REEL_SPEED == 5
HOOK_WIDTH == 20
HOOK_HEIGHT == 20
BUTTON_WIDTH == 200
BUTTON_HEIGHT == 50
UI_PADDING == 10
PLAYER_POS_X == SCREEN_WIDTH \div 2
BASE_ROUND_DURATION == 10000
BASE_HOOK_CAPACITY == 4
BASE_MAX_DEPTH == 300
DEPTH_INCREASE_PER_LEVEL == 100
CAPACITY_INCREASE_PER_LEVEL == 1
TIMER_INCREASE_PER_LEVEL == 5000

UPGRADE_COSTS ==
    [line_length   |-> <<100, 250, 500, 1000, 2000>>,
     hook_capacity |-> <<200, 400, 800, 1600, 3200>>,
     round_timer   |-> <<150, 300, 600, 1200, 2400>>]

\* list(Config.DEPTH_ZONES.keys()): a dict keeps its insertion order
zone_list == <<"surface", "shallows", "mid_water", "deep_sea", "abyss">>

DEPTH_ZONES ==
    [surface   |-> <<0, 100>>,
     shallows  |-> <<101, 200>>,
     mid_water |-> <<201, 300>>,
     deep_sea  |-> <<301, 400>>,
     abyss     |-> <<401, 500>>]

-----------------------------------------------------------------------------
(* Bounds of the model *)

\* add_coins is not called once the balance would pass this
MaxCoins == 3200

\* the amounts add_coins is called with
CoinAmounts == {0, 150, 1000}

\* the names purchase_upgrade is called with; "reel_speed" is not an upgrade
UpgradeNames == {"line_length", "hook_capacity", "round_timer", "reel_speed"}

\* the draws of random.choice([-1, 1]) and random.uniform(MIN_FISH_SPEED,
\* MAX_FISH_SPEED) in Fish.__init__
FishDirections == {1}
FishSpeeds == {2}

\* the draws of random.randint(depth_zone[0], depth_zone[1]) in
\* Fish.__init__, as rows below depth_zone[0]
SpawnRows == {0}

\* the outcomes of "random.random() < 0.3" in FishManager.update
ExtraSpawns == {FALSE, TRUE}

\* the draws of random.choice(available_zones) and random.choice(valid_fish)
\* in FishManager.spawn_fish, as positions in the list
ZoneDraws == {0}
SpeciesDraws == {0}

-----------------------------------------------------------------------------
(* game_state.py *)

Min(a, b) == IF a <= b THEN a ELSE b

InitialUpgrades == [line_length |-> 0, hook_capacity |-> 0, round_timer |-> 0]

InitialPowerUps ==
    [coin_multiplier |-> 0, rare_fish_lure |-> 0, magnet_hook |-> 0, depth_rush |-> 0]

\* GameState.__init__
GameStateInit ==
    /\ coins = 0
    /\ upgrades = InitialUpgrades
    /\ power_ups = InitialPowerUps
    /\ unlocked_zones = <<"surface">>
    /\ total_fish_caught = 0
    /\ total_coins_earned = 0
    /\ deepest_depth_reached = 0

\* the fields of a GameState object
EconomyRecord ==
    [coins |-> coins, upgrades |-> upgrades, power_ups |-> power_ups,
     unlocked_zones |-> unlocked_zones, total_fish_caught |-> total_fish_caught,
     total_coins_earned |-> total_coins_earned,
     deepest_depth_reached |-> deepest_depth_reached]

\* the fields GameState.__init__ sets
InitialEconomy ==
    [coins |-> 0, upgrades |-> InitialUpgrades, power_ups |-> InitialPowerUps,
     unlocked_zones |-> <<"surface">>, total_fish_caught |-> 0,
     total_coins_earned |-> 0, deepest_depth_reached |-> 0]

\* the GameState object is left with the fields eco
SetEconomy(eco) ==
    /\ coins' = eco.coins
    /\ upgrades' = eco.upgrades
    /\ power_ups' = eco.power_ups
    /\ unlocked_zones' = eco.unlocked_zones
    /\ total_fish_caught' = eco.total_fish_caught
    /\ total_coins_earned' = eco.total_coins_earned
    /\ deepest_depth_reached' = eco.deepest_depth_reached

\* the amount added to the balance alone
AddCoinsBalanceOnly(eco, amount) == [eco EXCEPT !.coins = @ + amount]

\* GameState.add_coins, of an object whose fields are eco
AddCoinsResult(eco, amount) ==
    [eco EXCEPT !.coins = @ + amount, !.total_coins_earned = @ + amount]

\* GameState.add_coins
add_coins(amount) == SetEconomy(AddCoinsResult(EconomyRecord, amount))

\* the price of the level after the one being bought (an index off by one)
UpgradeCostOffByOne(upgrade_name, current_level) ==
    UPGRADE_COSTS[upgrade_name][IF current_level + 2 <= 5 THEN current_level + 2 ELSE 1]

\* Config.UPGRADE_COSTS[upgrade_name][current_level]; Python indexes from 0
UpgradeCost(upgrade_name, current_level) ==
    UPGRADE_COSTS[upgrade_name][current_level + 1]

\* the balance check left out
CanAffordUnchecked(balance, cost) == TRUE

\* "if self.coins < cost: return False", negated
CanAfford(balance, cost) == balance >= cost

\* zones[:unlocked_count] of GameState._update_unlocked_zones, for the
\* upgrade levels ups
UnlockedZonesFor(ups) ==
    LET unlocked_count == Min(Len(zone_list), ups["line_length"] + 1)
    IN  SubSeq(zone_list, 1, unlocked_count)

\* GameState.purchase_upgrade, of an object whose fields are eco: the fields
\* it leaves, and the value returned
PurchaseResult(eco, upgrade_name) ==
    IF upgrade_name \notin DOMAIN eco.upgrades
    THEN [eco |-> eco, ret |-> "False"]
    ELSE LET current_level == eco.upgrades[upgrade_name] IN
         IF current_level >= Len(UPGRADE_COSTS[upgrade_name])
         THEN [eco |-> eco, ret |-> "False"]
         ELSE LET cost == UpgradeCost(upgrade_name, current_level) IN
              IF ~CanAfford(eco.coins, cost)
              THEN [eco |-> eco, ret |-> "False"]
              ELSE LET levels == [eco.upgrades EXCEPT ![upgrade_name] = @ + 1]
                   IN  [eco |-> [eco EXCEPT !.coins = @ - cost,
                                            !.upgrades = levels,
                                            !.unlocked_zones = UnlockedZonesFor(levels)],
                        ret |-> "True"]

\* GameState.purchase_upgrade; ret' is the value returned
purchase_upgrade(upgrade_name) ==
    LET bought == PurchaseResult(EconomyRecord, upgrade_name) IN
    /\ SetEconomy(bought.eco)
    /\ ret' = bought.ret

\* GameState.purchase_power_up, of an object whose fields are eco: the
\* fields it leaves, and the value returned
PowerUpResult(eco, power_up_name, cost) ==
    IF power_up_name \notin DOMAIN eco.power_ups
    THEN [eco |-> eco, ret |-> "False"]
    ELSE IF eco.coins < cost
    THEN [eco |-> eco, ret |-> "False"]
    ELSE [eco |-> [eco EXCEPT !.coins = @ - cost,
                              !.power_ups = [@ EXCEPT ![power_up_name] = @ + 1]],
          ret |-> "True"]

\* GameState.use_power_up, likewise
UsePowerUpResult(eco, power_up_name) ==
    IF power_up_name \notin DOMAIN eco.power_ups
    THEN [eco |-> eco, ret |-> "False"]
    ELSE IF eco.power_ups[power_up_name] <= 0
    THEN [eco |-> eco, ret |-> "False"]
    ELSE [eco |-> [eco EXCEPT !.power_ups = [@ EXCEPT ![power_up_name] = @ - 1]],
          ret |-> "True"]

\* GameState.update_stats, likewise; depth in pixels
UpdateStatsResult(eco, depth, fish_caught) ==
    [eco EXCEPT !.total_fish_caught = @ + fish_caught,
                !.deepest_depth_reached = IF depth > @ THEN depth ELSE @]

\* GameState.get_max_depth, in half pixels
get_max_depth ==
    2 * (BASE_MAX_DEPTH + upgrades["line_length"] * DEPTH_INCREASE_PER_LEVEL)

\* the capacity of a game without upgrades, whatever the level
HookCapacityBaseOnly == BASE_HOOK_CAPACITY

\* GameState.get_hook_capacity
get_hook_capacity ==
    BASE_HOOK_CAPACITY + upgrades["hook_capacity"] * CAPACITY_INCREASE_PER_LEVEL

\* GameState.get_round_duration, in milliseconds
get_round_duration ==
    BASE_ROUND_DURATION + upgrades["round_timer"] * TIMER_INCREASE_PER_LEVEL

\* the reset that leaves the power-ups as they are
ResetKeepingPowerUps ==
    SetEconomy([InitialEconomy EXCEPT !.power_ups = power_ups])

\* GameState.reset_progress
reset_progress == SetEconomy(InitialEconomy)

\* Config.SAVE_FILE as load_game finds it: absent, unparseable, or a JSON
\* object holding some of the fields save_game writes
NoFile == [kind |-> "absent"]
CorruptFile == [kind |-> "corrupt"]
JsonFile(save_data) == [kind |-> "json", data |-> save_data]

\* the three stats written beside the other keys, not under "stats"
SaveDataFlatStats(eco) ==
    [coins |-> eco.coins,
     upgrades |-> eco.upgrades,
     power_ups |-> eco.power_ups,
     unlocked_zones |-> eco.unlocked_zones,
     total_fish_caught |-> eco.total_fish_caught,
     total_coins_earned |-> eco.total_coins_earned,
     deepest_depth_reached |-> eco.deepest_depth_reached]

\* the save_data dict of GameState.save_game, of an object whose fields are
\* eco
SaveData(eco) ==
    [coins |-> eco.coins,
     upgrades |-> eco.upgrades,
     power_ups |-> eco.power_ups,
     unlocked_zones |-> eco.unlocked_zones,
     stats |-> [total_fish_caught |-> eco.total_fish_caught,
                total_coins_earned |-> eco.total_coins_earned,
                deepest_depth_reached |-> eco.deepest_depth_reached]]

\* GameState.save_game, of an object whose fields are eco
save_game(eco) == save_file' = JsonFile(SaveData(eco))

\* dict.get(key, default)
Get(dict, key, default) == IF key \in DOMAIN dict THEN dict[key] ELSE default

\* a JSON value that is no object (a number, a string, a list): it has no
\* method get, and calling it raises AttributeError
NotADict == [not_a_dict |-> TRUE]

IsDict(value) == "not_a_dict" \notin DOMAIN value

\* GameState.load_game on the file content `file`, of an object whose fields
\* are eco: the fields it leaves, and the value returned. An exception
\* raised inside the try block is caught and False is returned; the
\* assignments made before it stay.
LoadResult(file, eco) ==
    IF file = NoFile
    THEN [eco |-> eco, ret |-> "False"]         \* os.path.exists is false
    ELSE IF file = CorruptFile
    THEN [eco |-> eco, ret |-> "False"]         \* json.load raises, caught
    ELSE IF ~IsDict(file.data)
    THEN [eco |-> eco, ret |-> "False"]         \* save_data.get raises, caught
    ELSE LET save_data == file.data
             stats == Get(save_data, "stats", << >>)
             assigned ==
                [eco EXCEPT
                    !.coins = Get(save_data, "coins", 0),
                    !.upgrades = Get(save_data, "upgrades", eco.upgrades),
                    !.power_ups = Get(save_data, "power_ups", eco.power_ups),
                    !.unlocked_zones = Get(save_data, "unlocked_zones", <<"surface">>)]
         IN  IF ~IsDict(stats)
             THEN [eco |-> assigned, ret |-> "False"]   \* stats.get raises, caught
             ELSE [eco |-> [assigned EXCEPT
                              !.total_fish_caught = Get(stats, "total_fish_caught", 0),
                              !.total_coins_earned = Get(stats, "total_coins_earned", 0),
                              !.deepest_depth_reached = Get(stats, "deepest_depth_reached", 0)],
                   ret |-> "True"]

\* GameState.load_game; ret' is the value returned
load_game(file) ==
    LET loaded == LoadResult(file, EconomyRecord) IN
    /\ SetEconomy(loaded.eco)
    /\ ret' = loaded.ret

-----------------------------------------------------------------------------
(* player.py *)

\* Player.rod_pos[0]: self.x + 20
RodX == PLAYER_POS_X + 20

-----------------------------------------------------------------------------
(* fishing.py *)

\* FishingLine.hook_fixed_y
hook_fixed_y == SCREEN_HEIGHT \div 2

\* FishingLine.max_horizontal_range
max_horizontal_range == 350

\* FishingLine.__init__
FishingLineInit ==
    /\ current_depth = 0
    /\ descending = TRUE
    /\ horizontal_offset = 0
    /\ hook_centerx = RodX
    /\ caught_fish = << >>

\* a descent that is not stopped at the end of the line
DescendUnclamped(depth, max_depth) == depth + 1

\* the depth after the descending branch of FishingLine.update, in half
\* pixels: BASE_LINE_SPEED is one half pixel
Descend(depth, max_depth) ==
    IF depth + 1 >= max_depth THEN max_depth ELSE depth + 1

\* the fields of a FishingLine object
LineRecord ==
    [current_depth |-> current_depth, descending |-> descending,
     horizontal_offset |-> horizontal_offset, hook_centerx |-> hook_centerx,
     caught_fish |-> caught_fish]

\* FishingLine.update, of an object whose fields are ln: the fields it leaves
update_line(ln, max_depth) ==
    LET moved ==
          IF ln.descending
          THEN [ln EXCEPT !.current_depth = Descend(ln.current_depth, max_depth)]
          ELSE IF ln.current_depth - 2 * BASE_REEL_SPEED <= 0
               THEN [ln EXCEPT !.current_depth = 0, !.descending = TRUE,
                               !.horizontal_offset = 0, !.caught_fish = << >>]
               ELSE [ln EXCEPT !.current_depth = @ - 2 * BASE_REEL_SPEED]
    IN  [moved EXCEPT !.hook_centerx = RodX + moved.horizontal_offset]

SetLine(ln) ==
    /\ current_depth' = ln.current_depth
    /\ descending' = ln.descending
    /\ horizontal_offset' = ln.horizontal_offset
    /\ hook_centerx' = ln.hook_centerx
    /\ caught_fish' = ln.caught_fish

\* the identities of the fish objects of a list
Ids(fish_seq) == { fish_seq[i].id : i \in 1..Len(fish_seq) }

\* the guard without the capacity test
HookAcceptsAnyNumber(hooked, capacity, fish) ==
    fish.id \notin Ids(hooked)

\* the guard of FishingLine.add_caught_fish: room on the hook, and the fish
\* object not on it already
HookAccepts(hooked, capacity, fish) ==
    Len(hooked) < capacity /\ fish.id \notin Ids(hooked)

\* what the lists of caught fish keep of a fish object: its identity and its
\* species (its rect is not read again)
FishRef(fish) == [id |-> fish.id, name |-> fish.name]

\* FishingLine.add_caught_fish; ret' is the value returned
add_caught_fish(fish) ==
    /\ IF HookAccepts(caught_fish, get_hook_capacity, fish)
       THEN caught_fish' = Append(caught_fish, FishRef(fish)) /\ ret' = "True"
       ELSE caught_fish' = caught_fish /\ ret' = "False"
    /\ UNCHANGED <<current_depth, descending, horizontal_offset, hook_centerx>>

\* FishingLine.is_at_capacity, of the hook list hooked
is_at_capacity(hooked) == Len(hooked) >= get_hook_capacity

\* FishingLine.reached_max_depth
reached_max_depth == current_depth >= get_max_depth /\ ~descending

\* the reset that takes the hook back to the surface as well
ResetToSurface ==
    /\ current_depth' = 0
    /\ descending' = TRUE
    /\ horizontal_offset' = 0
    /\ caught_fish' = << >>
    /\ UNCHANGED hook_centerx

\* FishingLine.reset
line_reset ==
    /\ descending' = TRUE
    /\ horizontal_offset' = 0
    /\ caught_fish' = << >>
    /\ UNCHANGED <<current_depth, hook_centerx>>

\* the full reset that leaves the fish on the hook
FullResetKeepingCatch ==
    /\ current_depth' = 0
    /\ descending' = TRUE
    /\ horizontal_offset' = 0
    /\ UNCHANGED <<caught_fish, hook_centerx>>

\* FishingLine.full_reset
full_reset ==
    /\ current_depth' = 0
    /\ descending' = TRUE
    /\ horizontal_offset' = 0
    /\ caught_fish' = << >>
    /\ UNCHANGED hook_centerx

-----------------------------------------------------------------------------
(* fish.py *)

\* FishManager.initialize_fish_data
fish_data ==
    << [name |-> "Clownfish", rarity |-> "Common",    value |-> 10,  depth_range |-> "surface"],
       [name |-> "Blue Tang", rarity |-> "Common",    value |-> 15,  depth_range |-> "surface"],
       [name |-> "Yellowtail", rarity |-> "Uncommon", value |-> 25,  depth_range |-> "shallows"],
       [name |-> "Grouper",   rarity |-> "Uncommon",  value |-> 35,  depth_range |-> "shallows"],
       [name |-> "Tuna",      rarity |-> "Rare",      value |-> 50,  depth_range |-> "mid_water"],
       [name |-> "Swordfish", rarity |-> "Rare",      value |-> 75,  depth_range |-> "mid_water"],
       [name |-> "Angler",    rarity |-> "Epic",      value |-> 100, depth_range |-> "deep_sea"],
       [name |-> "Oarfish",   rarity |-> "Epic",      value |-> 150, depth_range |-> "deep_sea"],
       [name |-> "Kraken",    rarity |-> "Legendary", value |-> 300, depth_range |-> "abyss"] >>

\* Fish.get_value, of a fish object of the species called name
get_value(name) ==
    LET i == CHOOSE j \in 1..Len(fish_data) : fish_data[j].name = name
    IN  fish_data[i].value

\* the size of a fish's rect: the placeholder surface of Fish.load_image
FishWidth == 40
FishHeight == 20

\* the radius of FishManager.check_catches within which a fish under the
\* mouse is caught, and the one within which any fish is
catch_radius == 80
auto_catch_radius == 30

\* base_spawn_interval of FishManager.update, in milliseconds
base_spawn_interval == 1000

\* pygame.Rect keeps integers: a float assigned to rect.x or rect.y is cut
\* towards zero.  TruncHalf(n) is the integer n/2 is cut to.
TruncHalf(n) == IF n >= 0 THEN n \div 2 ELSE -((-n) \div 2)

\* FishManager.__init__
FishManagerInit ==
    /\ all_fish = << >>
    /\ fm_caught_fish = << >>
    /\ last_spawn_time = 0
    /\ previous_depth = 0

\* Fish.__init__: a new fish object at the edge of the screen it swims from
NewFish(id, species, direction, speed, y) ==
    [id |-> id, name |-> species.name,
     x |-> IF direction = -1 THEN SCREEN_WIDTH + FishWidth ELSE -FishWidth,
     y |-> y, direction |-> direction, speed |-> speed, caught |-> FALSE]

\* Fish.rect.center
FishCenter(fish) ==
    [x |-> fish.x + FishWidth \div 2, y |-> fish.y + FishHeight \div 2]

\* Fish.rect.collidepoint(pos)
CollidePoint(fish, pos) ==
    /\ fish.x <= pos.x /\ pos.x < fish.x + FishWidth
    /\ fish.y <= pos.y /\ pos.y < fish.y + FishHeight

\* the off-screen test of Fish.update
OffScreen(fish) ==
    \/ fish.direction = -1 /\ fish.x + FishWidth < 0
    \/ fish.direction = 1 /\ fish.x > SCREEN_WIDTH
    \/ fish.y > SCREEN_HEIGHT

\* the position after Fish.update: direction * speed sideways and half the
\* speed upwards (the 20% extra jump upwards not drawn)
Swim(fish) ==
    IF fish.caught THEN fish
    ELSE [fish EXCEPT !.x = @ + fish.direction * fish.speed,
                      !.y = TruncHalf(2 * @ - fish.speed)]

\* the camera tracking of FishManager.update: an uncaught fish is moved by
\* 3.0 times the depth change, depth_change in half pixels (the 10% jitter
\* not drawn)
CameraShift(fish, depth_change) ==
    IF fish.caught THEN fish
    ELSE [fish EXCEPT !.y = TruncHalf(2 * @ - 3 * depth_change)]

\* the pruning test of FishManager.update
TooFarOff(fish) ==
    ~fish.caught /\ (fish.y < -100 \/ fish.y > SCREEN_HEIGHT + 100)

Map(Op(_), seq) == [i \in 1..Len(seq) |-> Op(seq[i])]

RECURSIVE Filter(_, _)
Filter(Keep(_), seq) ==
    IF seq = << >> THEN << >>
    ELSE IF Keep(Head(seq)) THEN <<Head(seq)>> \o Filter(Keep, Tail(seq))
         ELSE Filter(Keep, Tail(seq))

\* self.spawn_interval against the clock, in FishManager.update:
\* current_time - last_spawn_time > 1000 * (1 - min(1, depth / 500) * 0.5),
\* depth in half pixels and the inequality doubled
SpawnDue(current_time, last_time, depth) ==
    2 * (current_time - last_time)
        > 2 * base_spawn_interval - (IF depth >= 1000 THEN 1000 ELSE depth)

\* the zones, by position in zone_list, whose interval holds a depth (half
\* pixels): min_depth <= current_depth <= max_depth
ZoneHits(depth) ==
    { i \in 1..Len(zone_list) :
        /\ 2 * DEPTH_ZONES[zone_list[i]][1] <= depth
        /\ depth <= 2 * DEPTH_ZONES[zone_list[i]][2] }

\* the zone spawn_fish finds for a depth (half pixels): the first zone whose
\* interval holds it, "surface" when none does
ZoneAtDepth(depth) ==
    LET hits == ZoneHits(depth)
    IN  IF hits = {} THEN "surface"
        ELSE zone_list[CHOOSE i \in hits : \A j \in hits : i <= j]

Range(seq) == { seq[i] : i \in 1..Len(seq) }

IndexOf(seq, e) == CHOOSE i \in 1..Len(seq) : seq[i] = e

\* random.choice(seq), the draw being the position draw modulo the length
Choice(seq, draw) == seq[(draw % Len(seq)) + 1]

\* current_zone of FishManager.spawn_fish once the first unlocked zone has
\* replaced a locked one
CurrentZone(depth, unlocked) ==
    LET found == ZoneAtDepth(depth)
    IN  IF found \notin Range(unlocked) THEN unlocked[1] ELSE found

\* every unlocked zone a candidate, wherever the hook is
AvailableZonesAllUnlocked(depth, unlocked) == unlocked

\* available_zones of FishManager.spawn_fish, a list
AvailableZones(depth, unlocked) ==
    LET current_zone == CurrentZone(depth, unlocked)
        current_index == IndexOf(zone_list, current_zone)
        near ==
            (IF current_zone \in Range(unlocked) THEN <<current_zone>> ELSE << >>)
            \o (IF current_index > 1
                   /\ zone_list[current_index - 1] \in Range(unlocked)
                THEN <<zone_list[current_index - 1]>> ELSE << >>)
            \o (IF current_index < Len(zone_list)
                   /\ zone_list[current_index + 1] \in Range(unlocked)
                THEN <<zone_list[current_index + 1]>> ELSE << >>)
    IN  IF near = << >> THEN unlocked ELSE near

\* the species of the zone alone, at every depth
ValidFishZoneOnly(zone_name, depth) ==
    LET InZone(species) == species.depth_range = zone_name
    IN  Filter(InZone, fish_data)

\* valid_fish of FishManager.spawn_fish, a list
ValidFish(zone_name, depth) ==
    LET InZone(species) == species.depth_range = zone_name
    IN  IF depth > 2 * 500 THEN fish_data ELSE Filter(InZone, fish_data)

\* adjusted_depth[0] of FishManager.spawn_fish: int(0.75 * SCREEN_HEIGHT -
\* zone_index / 4 * 50), zone_index counted from 0
SpawnMinY(zone_name) ==
    (2 * ((3 * SCREEN_HEIGHT) \div 4) - 25 * (IndexOf(zone_list, zone_name) - 1)) \div 2

\* adjusted_depth[1]: int(SCREEN_HEIGHT + 50 - zone_index / 4 * 50)
SpawnMaxY(zone_name) ==
    (2 * (SCREEN_HEIGHT + 50) - 25 * (IndexOf(zone_list, zone_name) - 1)) \div 2

\* the identity of a new object: one no fish object in use has
FreshId(population) ==
    LET used == Ids(population) \cup Ids(caught_fish) \cup Ids(fm_caught_fish)
    IN  CHOOSE i \in 1..(Cardinality(used) + 1) :
            i \notin used /\ \A j \in 1..(i - 1) : j \in used

\* the locals of one call of FishManager.spawn_fish with a zone unlocked,
\* for the draws d of random.choice, random.uniform and random.randint
SpawnDraw(depth, unlocked, d) ==
    LET available_zones == AvailableZones(depth, unlocked)
        zone_name == Choice(available_zones, d.zone)
    IN  [current_zone |-> CurrentZone(depth, unlocked),
         available_zones |-> available_zones,
         zone_name |-> zone_name,
         valid_fish |-> IF zone_name \notin DOMAIN DEPTH_ZONES THEN << >>
                        ELSE ValidFish(zone_name, depth),
         draw |-> d]

\* the group after the call whose locals are q: the call returns early
\* when valid_fish is empty
Spawned(population, q) ==
    IF q.valid_fish = << >> THEN population
    ELSE Append(population,
                NewFish(FreshId(population),
                        Choice(q.valid_fish, q.draw.species),
                        q.draw.direction, q.draw.speed,
                        Min(SpawnMinY(q.zone_name) + q.draw.row,
                            SpawnMaxY(q.zone_name))))

\* FishManager.spawn_fish: the populations it can leave, one for each draw
\* of random.choice, random.uniform and random.randint
spawn_fish(population, depth) ==
    IF unlocked_zones = << >> THEN {population}
    ELSE { Spawned(population, SpawnDraw(depth, unlocked_zones, d))
           : d \in [zone : ZoneDraws, species : SpeciesDraws,
                    direction : FishDirections, speed : FishSpeeds,
                    row : SpawnRows] }

\* FishManager.update after the camera tracking: spawning, Fish.update of
\* every fish (a fish off the screen is removed from the group) and the
\* pruning; the populations it can leave
SpawnSwimPrune(population, current_time, depth) ==
    LET once == IF SpawnDue(current_time, last_spawn_time, depth)
                THEN spawn_fish(population, depth)
                ELSE {population}
        twice == IF SpawnDue(current_time, last_spawn_time, depth) /\ depth > 2 * 200
                 THEN UNION { IF extra THEN spawn_fish(p, depth) ELSE {p} :
                                p \in once, extra \in ExtraSpawns }
                 ELSE once
        Alive(fish) == fish.caught \/ ~OffScreen(fish)
        Near(fish) == ~TooFarOff(fish)
    IN  { Filter(Near, Filter(Alive, Map(Swim, p))) : p \in twice }

\* the hook's rect.center
HookCenter == [x |-> hook_centerx, y |-> hook_fixed_y + HOOK_HEIGHT \div 2]

SquaredDistance(a, b) == (a.x - b.x) * (a.x - b.x) + (a.y - b.y) * (a.y - b.y)

\* the condition without the automatic catch of a fish close to the hook
CatchConditionHoverOnly(fish, mouse_pos, hook_center) ==
    /\ CollidePoint(fish, mouse_pos)
    /\ SquaredDistance(FishCenter(fish), hook_center) <= catch_radius * catch_radius

\* the condition without the distance bound on a fish under the mouse
CatchConditionNoRadius(fish, mouse_pos, hook_center) ==
    \/ CollidePoint(fish, mouse_pos)
    \/ SquaredDistance(FishCenter(fish), hook_center) <= auto_catch_radius * auto_catch_radius

\* the two ways of FishManager.check_catches to catch a fish; the distance
\* is compared squared
CatchCondition(fish, mouse_pos, hook_center) ==
    \/ /\ CollidePoint(fish, mouse_pos)
       /\ SquaredDistance(FishCenter(fish), hook_center) <= catch_radius * catch_radius
    \/ SquaredDistance(FishCenter(fish), hook_center) <= auto_catch_radius * auto_catch_radius

\* one turn of the loop of FishManager.check_catches, on the fish object
\* fish: st holds the group, the hook's list, the round's list and
\* caught_any as the turns before left them
CatchTurn(st, fish, mouse_pos, hook_center) ==
    IF fish.caught THEN [st EXCEPT !.all_fish = Append(@, fish)]
    ELSE IF ~CatchCondition(fish, mouse_pos, hook_center)
    THEN [st EXCEPT !.all_fish = Append(@, fish)]
    \* fish.catch() marks the fish and returns True; add_caught_fish follows
    ELSE IF HookAccepts(st.caught_fish, get_hook_capacity, fish)
    THEN [all_fish |-> st.all_fish,
          caught_fish |-> Append(st.caught_fish, FishRef(fish)),
          fm_caught_fish |-> Append(st.fm_caught_fish, FishRef(fish)),
          caught_any |-> TRUE]
    ELSE [st EXCEPT !.all_fish = Append(@, [fish EXCEPT !.caught = TRUE])]

RECURSIVE CatchLoop(_, _, _, _)
CatchLoop(st, todo, mouse_pos, hook_center) ==
    IF todo = << >> THEN st
    ELSE CatchLoop(CatchTurn(st, Head(todo), mouse_pos, hook_center),
                   Tail(todo), mouse_pos, hook_center)

\* FishManager.check_catches on the group population with the hook's list
\* hooked: what it leaves, and caught_any
check_catches(population, hooked, mouse_pos, hook_center) ==
    CatchLoop([all_fish |-> << >>, caught_fish |-> hooked,
               fm_caught_fish |-> fm_caught_fish, caught_any |-> FALSE],
              population, mouse_pos, hook_center)

RECURSIVE SumValues(_)
SumValues(fish_seq) ==
    IF fish_seq = << >> THEN 0
    ELSE get_value(Head(fish_seq).name) + SumValues(Tail(fish_seq))

\* FishManager.calculate_round_value, of the round's list
calculate_round_value(fish_seq) == SumValues(fish_seq)

\* FishManager.reset_round
reset_round ==
    /\ all_fish' = << >>
    /\ fm_caught_fish' = << >>
    /\ UNCHANGED <<last_spawn_time, previous_depth>>

-----------------------------------------------------------------------------
(* ui.py *)

\* UI.init_ui_elements: the rects of the buttons
buttons ==
    [continue |-> [x |-> SCREEN_WIDTH \div 2 - BUTTON_WIDTH \div 2,
                   y |-> SCREEN_HEIGHT - 100, w |-> BUTTON_WIDTH, h |-> BUTTON_HEIGHT],
     start    |-> [x |-> SCREEN_WIDTH \div 2 - BUTTON_WIDTH \div 2,
                   y |-> SCREEN_HEIGHT - 150, w |-> BUTTON_WIDTH, h |-> BUTTON_HEIGHT],
     reset    |-> [x |-> SCREEN_WIDTH \div 2 - BUTTON_WIDTH \div 2,
                   y |-> SCREEN_HEIGHT - 85, w |-> BUTTON_WIDTH, h |-> BUTTON_HEIGHT],
     line_length   |-> [x |-> SCREEN_WIDTH - BUTTON_WIDTH - UI_PADDING,
                        y |-> 180, w |-> BUTTON_WIDTH, h |-> BUTTON_HEIGHT],
     hook_capacity |-> [x |-> SCREEN_WIDTH - BUTTON_WIDTH - UI_PADDING,
                        y |-> 180 + (BUTTON_HEIGHT + 20), w |-> BUTTON_WIDTH, h |-> BUTTON_HEIGHT],
     round_timer   |-> [x |-> SCREEN_WIDTH - BUTTON_WIDTH - UI_PADDING,
                        y |-> 180 + 2 * (BUTTON_HEIGHT + 20), w |-> BUTTON_WIDTH, h |-> BUTTON_HEIGHT]]

\* pygame.Rect.collidepoint
RectCollidePoint(rect, pos) ==
    /\ rect.x <= pos.x /\ pos.x < rect.x + rect.w
    /\ rect.y <= pos.y /\ pos.y < rect.y + rect.h

\* UI.check_continue_button, check_start_button, check_reset_button
check_continue_button(mouse_pos) == RectCollidePoint(buttons["continue"], mouse_pos)
check_start_button(mouse_pos) == RectCollidePoint(buttons["start"], mouse_pos)

check_reset_button(mouse_pos) == RectCollidePoint(buttons["reset"], mouse_pos)

\* UI.check_upgrade_buttons: the upgrade id, or "None"
check_upgrade_buttons(mouse_pos) ==
    LET order == <<"line_length", "hook_capacity", "round_timer">>
        hit == { i \in 1..Len(order) : RectCollidePoint(buttons[order[i]], mouse_pos) }
    IN  IF hit = {} THEN "None"
        ELSE LET upgrade_id == order[CHOOSE i \in hit : \A j \in hit : i <= j]
                 level == upgrades[upgrade_id]
             IN  IF level >= Len(UPGRADE_COSTS[upgrade_id]) THEN "None"
                 ELSE IF coins < UPGRADE_COSTS[upgrade_id][level + 1] THEN "None"
                 ELSE upgrade_id

-----------------------------------------------------------------------------
(* main.py *)

\* Game.__init__, before load_game
GameInit ==
    /\ current_screen = "MAIN_GAME"
    /\ round_active = FALSE
    /\ round_start_time = 0
    /\ round_timer = 0
    /\ running = TRUE

\* the round started without FishManager.reset_round
StartRoundKeepingFish(current_time) ==
    /\ round_active' = TRUE
    /\ round_start_time' = current_time
    /\ full_reset
    /\ UNCHANGED fish_manager

\* Game.start_round at the clock value current_time
start_round(current_time) ==
    /\ round_active' = TRUE
    /\ round_start_time' = current_time
    /\ full_reset
    /\ reset_round

\* the round's value taken as the number of fish
CountRoundValue(fish_seq) == Len(fish_seq)

\* FishManager.calculate_round_value, as Game.end_round calls it
RoundValue(fish_seq) == calculate_round_value(fish_seq)

\* the round ends on the shop screen
EndRoundScreenShop == "SHOP"

\* the screen Game.end_round switches to
EndRoundScreen == "RESULTS"

\* the round's value added to the balance twice
EndRoundCreditsTwice(fish_seq) ==
    /\ round_active' = FALSE
    /\ add_coins(2 * RoundValue(fish_seq))
    /\ current_screen' = EndRoundScreen

\* Game.end_round, the round's list being fish_seq
end_round(fish_seq) ==
    /\ round_active' = FALSE
    /\ add_coins(RoundValue(fish_seq))
    /\ current_screen' = EndRoundScreen

\* the horizontal offset Game.update gives the line for a mouse position
ClampOffset(mouse_x) ==
    LET offset == mouse_x - RodX IN
    IF offset > max_horizontal_range THEN max_horizontal_range
    ELSE IF offset < -max_horizontal_range THEN -max_horizontal_range
    ELSE offset

\* the test without the timer: a round ends on a full hook alone
RoundOverOnFullHook(timer, hooked) == is_at_capacity(hooked)

\* the test with the duration of a game without upgrades
RoundOverBaseDuration(timer, hooked) ==
    timer >= BASE_ROUND_DURATION \/ is_at_capacity(hooked)

\* "if round_timer >= get_round_duration() or is_at_capacity()" of Game.update
RoundOver(timer, hooked) == timer >= get_round_duration \/ is_at_capacity(hooked)

\* Game.update in the frame whose clock value is current_time, the mouse at
\* mouse_pos
update(mouse_pos, current_time) ==
    IF current_screen = "MAIN_GAME"
    THEN IF round_active
         THEN LET timer == current_time - round_start_time
                  ln == update_line([LineRecord EXCEPT
                                        !.horizontal_offset = ClampOffset(mouse_pos.x)],
                                    get_max_depth)
                  \* FishManager.update
                  depth_change == ln.current_depth - previous_depth
                  tracked == IF depth_change # 0
                             THEN Map(LAMBDA fish : CameraShift(fish, depth_change), all_fish)
                             ELSE all_fish
              IN
              \E population \in SpawnSwimPrune(tracked, current_time, ln.current_depth) :
                LET hook_center == [x |-> ln.hook_centerx,
                                    y |-> hook_fixed_y + HOOK_HEIGHT \div 2]
                    caught == check_catches(population, ln.caught_fish, mouse_pos, hook_center)
                IN  /\ round_timer' = timer
                    /\ SetLine([ln EXCEPT !.caught_fish = caught.caught_fish])
                    /\ previous_depth' = ln.current_depth
                    /\ last_spawn_time' =
                          IF SpawnDue(current_time, last_spawn_time, ln.current_depth)
                          THEN current_time ELSE last_spawn_time
                    /\ all_fish' = caught.all_fish
                    /\ fm_caught_fish' = caught.fm_caught_fish
                    /\ IF RoundOver(timer, caught.caught_fish)
                       THEN end_round(caught.fm_caught_fish)
                       ELSE UNCHANGED <<round_active, current_screen, economy>>
                    /\ UNCHANGED <<round_start_time, running, save_file>>
         ELSE /\ start_round(current_time)
              /\ UNCHANGED <<economy, save_file, current_screen, round_timer, running>>
    ELSE \* RESULTS: nothing; SHOP: the hover state of the buttons
         UNCHANGED <<economy, save_file, line, fish_manager, game>>

\* the RESULTS branch followed by the SHOP branch in the same event ("if"
\* for "elif"): the click that continues resets as well when it is on the
\* reset button
ResultsClickThenShop(mouse_pos) ==
    /\ current_screen' =
          IF check_continue_button(mouse_pos) THEN "SHOP" ELSE current_screen
    /\ IF check_continue_button(mouse_pos) /\ check_reset_button(mouse_pos)
       THEN SetEconomy(InitialEconomy) /\ save_game(InitialEconomy)
       ELSE UNCHANGED <<economy, save_file>>
    /\ UNCHANGED <<line, fish_manager,
                   round_active, round_start_time, round_timer, running>>

\* Game.handle_events on a MOUSEBUTTONDOWN of the left button: the branch
\* of the RESULTS screen
ResultsClick(mouse_pos) ==
    /\ current_screen' =
          IF check_continue_button(mouse_pos) THEN "SHOP" ELSE current_screen
    /\ UNCHANGED <<economy, save_file, line, fish_manager,
                   round_active, round_start_time, round_timer, running>>

\* Game.handle_events on a MOUSEBUTTONDOWN of the left button, the mouse at
\* mouse_pos, at the clock value current_time
mouse_button_down(mouse_pos, current_time) ==
    IF current_screen = "RESULTS"
    THEN ResultsClick(mouse_pos)
    ELSE IF current_screen = "SHOP"
    THEN LET upgrade_clicked == check_upgrade_buttons(mouse_pos)
             bought == IF upgrade_clicked # "None"
                       THEN PurchaseResult(EconomyRecord, upgrade_clicked).eco
                       ELSE EconomyRecord
         IN  /\ IF check_start_button(mouse_pos)
                THEN /\ current_screen' = "MAIN_GAME"
                     /\ start_round(current_time)
                     /\ UNCHANGED <<round_timer, running>>
                ELSE UNCHANGED <<line, fish_manager, game>>
             /\ IF check_reset_button(mouse_pos)
                THEN /\ SetEconomy(InitialEconomy)      \* reset_progress
                     /\ save_game(InitialEconomy)
                ELSE /\ SetEconomy(bought)
                     /\ UNCHANGED save_file
    ELSE UNCHANGED <<economy, save_file, line, fish_manager, game>>

\* Game.quit_game, on pygame.QUIT or the escape key
quit_game ==
    /\ running' = FALSE
    /\ save_game(EconomyRecord)
    /\ UNCHANGED <<economy, line, fish_manager,
                   current_screen, round_active, round_start_time, round_timer>>

-----------------------------------------------------------------------------
(* The save files load_game is given.  A file is a record save_game wrote  *)
(* in some state of the game, whole or with fields left out (a record of   *)
(* an older version of the game).                                          *)

Restrict(f, S) == [x \in S |-> f[x]]

SavedRecords ==
    { [coins |-> 50,
       upgrades |-> [line_length |-> 2, hook_capacity |-> 1, round_timer |-> 0],
       power_ups |-> InitialPowerUps,
       unlocked_zones |-> <<"surface", "shallows", "mid_water">>,
       stats |-> [total_fish_caught |-> 0, total_coins_earned |-> 600,
                  deepest_depth_reached |-> 0]] }

SavedFields == {"coins", "upgrades", "power_ups", "unlocked_zones", "stats"}

\* the fields a file of EconomyFiles may lack, one at a time
DroppedFields == {"coins", "power_ups", "unlocked_zones", "stats"}

EconomyFiles ==
    {NoFile, CorruptFile}
    \cup { JsonFile(Restrict(r, SavedFields \ {f})) :
                r \in SavedRecords, f \in DroppedFields }
    \cup { JsonFile(r) : r \in SavedRecords }

-----------------------------------------------------------------------------
(* SpecEconomy: a GameState object under any sequence of calls of its      *)
(* operations.                                                             *)

InitEconomy ==
    /\ GameStateInit
    /\ save_file = NoFile
    /\ FishingLineInit
    /\ FishManagerInit
    /\ GameInit
    /\ clock = 0
    /\ ret = "None"

PurchaseUpgrade(upgrade_name) ==
    /\ purchase_upgrade(upgrade_name)
    /\ UNCHANGED <<save_file, line, fish_manager, game, clock>>

AddCoins(amount) ==
    /\ coins + amount <= MaxCoins
    /\ add_coins(amount)
    /\ ret' = "None"
    /\ UNCHANGED <<save_file, line, fish_manager, game, clock>>

ResetProgress ==
    /\ reset_progress
    /\ ret' = "None"
    /\ UNCHANGED <<save_file, line, fish_manager, game, clock>>

LoadGame(file) ==
    /\ load_game(file)
    /\ UNCHANGED <<save_file, line, fish_manager, game, clock>>

NextEconomy ==
    \/ \E upgrade_name \in UpgradeNames : PurchaseUpgrade(upgrade_name)
    \/ \E amount \in CoinAmounts : AddCoins(amount)
    \/ ResetProgress
    \/ \E file \in EconomyFiles : LoadGame(file)

SpecEconomy == InitEconomy /\ [][NextEconomy]_vars

-----------------------------------------------------------------------------
(* Spec: the game from Game.__init__ on.  A step is a frame of Game.run    *)
(* without an event (Frame), a left click (Click) or the quit event        *)
(* (Quit).  SpecIdle is the same game with the mouse kept away from the    *)
(* fish, followed for longer than a whole round.                           *)

Point(px, py) == [x |-> px, y |-> py]

\* where the mouse is in a frame of a round: where the hook meets the fish
\* that swim in from the left, and far from them
MousePoints == {Point(70, 310), Point(400, 470)}

IdleMousePoints == {Point(400, 470)}

\* where the left button is pressed: the continue button (and, in the shop,
\* the reset button), the start button, the three upgrade buttons, the reset
\* button alone, and no button
ClickPoints ==
    {Point(400, 520), Point(400, 470), Point(600, 200), Point(600, 270),
     Point(600, 340), Point(400, 560), Point(10, 10)}

\* the clock values between two frames: clock.tick(FPS) waits for
\* 1000 // FPS milliseconds at least
FrameMs == {1000 \div FPS}

\* no frame begins after these clock values
MaxClock == 5300
MaxClockIdle == 10100

\* a save file of a game with one level of line length and of hook capacity
SavedGame ==
    JsonFile([coins |-> 100,
              upgrades |-> [line_length |-> 1, hook_capacity |-> 1, round_timer |-> 0],
              power_ups |-> InitialPowerUps,
              unlocked_zones |-> <<"surface", "shallows">>,
              stats |-> [total_fish_caught |-> 0, total_coins_earned |-> 400,
                         deepest_depth_reached |-> 0]])

\* the save file Game.__init__ finds
GameFiles == {NoFile, SavedGame}

\* Game.__init__: the components, then load_game on the file found
GameStart(file) ==
    LET loaded == LoadResult(file, InitialEconomy).eco IN
    /\ coins = loaded.coins
    /\ upgrades = loaded.upgrades
    /\ power_ups = loaded.power_ups
    /\ unlocked_zones = loaded.unlocked_zones
    /\ total_fish_caught = loaded.total_fish_caught
    /\ total_coins_earned = loaded.total_coins_earned
    /\ deepest_depth_reached = loaded.deepest_depth_reached
    /\ save_file = file
    /\ FishingLineInit
    /\ FishManagerInit
    /\ GameInit
    /\ clock = 0
    /\ ret = "None"

Init == \E file \in GameFiles : GameStart(file)

\* a frame of Game.run without an event: update, then clock.tick
Frame(mouse_pos, ms, limit) ==
    /\ running
    /\ clock + ms <= limit
    /\ clock' = clock + ms
    /\ update(mouse_pos, clock')
    /\ ret' = "None"

\* a left click, handled at the head of a frame
Click(mouse_pos) ==
    /\ running
    /\ mouse_button_down(mouse_pos, clock)
    /\ ret' = "None"
    /\ UNCHANGED clock

Quit ==
    /\ running
    /\ quit_game
    /\ ret' = "None"
    /\ UNCHANGED clock

Next ==
    \/ \E mouse_pos \in MousePoints, ms \in FrameMs : Frame(mouse_pos, ms, MaxClock)
    \/ \E mouse_pos \in ClickPoints : Click(mouse_pos)
    \/ Quit

Spec == Init /\ [][Next]_vars

InitIdle == GameStart(SavedGame)

NextIdle ==
    \/ \E mouse_pos \in IdleMousePoints, ms \in FrameMs : Frame(mouse_pos, ms, MaxClockIdle)
    \/ \E mouse_pos \in ClickPoints : Click(mouse_pos)
    \/ Quit

SpecIdle == InitIdle /\ [][NextIdle]_vars

-----------------------------------------------------------------------------
(* SpecLine: a FishingLine object, of a game as Game.__init__ leaves it,   *)
(* under any sequence of calls of its operations.                          *)

\* the line is not lowered below this depth (half pixels)
MaxLineDepth == 3

\* the fish objects add_caught_fish is called with
MaxPoolId == 6

LineFishPool ==
    { NewFish(id, fish_data[((id - 1) % Len(fish_data)) + 1], 1, 2, 450) : id \in 1..MaxPoolId }

\* the mouse positions Game.update reads before it calls FishingLine.update
LineMouseXs == {70, 420}

InitLine == \E file \in GameFiles : GameStart(file)

AddCaughtFish(fish) ==
    /\ add_caught_fish(fish)
    /\ UNCHANGED <<economy, save_file, fish_manager, game, clock>>

\* "self.fishing_line.horizontal_offset = horizontal_offset" and
\* FishingLine.update, as in Game.update
LineUpdate(mouse_x) ==
    /\ current_depth < MaxLineDepth
    /\ SetLine(update_line([LineRecord EXCEPT !.horizontal_offset = ClampOffset(mouse_x)],
                           get_max_depth))
    /\ ret' = "None"
    /\ UNCHANGED <<economy, save_file, fish_manager, game, clock>>

LineReset ==
    /\ line_reset
    /\ ret' = "None"
    /\ UNCHANGED <<economy, save_file, fish_manager, game, clock>>

LineFullReset ==
    /\ full_reset
    /\ ret' = "None"
    /\ UNCHANGED <<economy, save_file, fish_manager, game, clock>>

NextLine ==
    \/ \E fish \in LineFishPool : AddCaughtFish(fish)
    \/ \E mouse_x \in LineMouseXs : LineUpdate(mouse_x)
    \/ LineReset
    \/ LineFullReset

SpecLine == InitLine /\ [][NextLine]_vars

-----------------------------------------------------------------------------
(* SpecCatch: FishManager.check_catches in a round of a new game, on the   *)
(* fish a frame can find around the hook.  The hook hangs at the left end  *)
(* of its range (centre 70, 310); the fish are at distances 0, 30, 31, 80  *)
(* and 81 from it.                                                         *)

\* rect.x and rect.y of the fish: centres at distance 0, 30, 31, 80 and 81
\* to the left of the hook's centre, and at distance 80 above it to the left
CatchFishSpots ==
    << [x |-> 50, y |-> 300], [x |-> 20, y |-> 300], [x |-> 19, y |-> 300],
       [x |-> -30, y |-> 300], [x |-> -31, y |-> 300], [x |-> 2, y |-> 236] >>

\* the most fish around the hook in a frame
MaxPopulation == 3

\* the mouse in the frame: on the hook, left of it inside the fish at
\* distance 30 and 31, at the edge of the screen inside the fish at distance
\* 80 and 81, and inside the fish above
CatchMousePoints == {Point(70, 310), Point(30, 310), Point(0, 310), Point(10, 246)}

\* a fish object in the spot numbered spot, the i-th of the group; its
\* identity tells both
SpotFish(i, spot) ==
    [NewFish(10 * i + spot, fish_data[1], 1, 2, CatchFishSpots[spot].y)
        EXCEPT !.x = CatchFishSpots[spot].x]

CatchPopulations ==
    UNION { { [i \in 1..n |-> SpotFish(i, spots[i])] :
                spots \in [1..n -> 1..Len(CatchFishSpots)] } : n \in 1..MaxPopulation }

\* the fish caught earlier in the round
HookedBefore(n) == [i \in 1..n |-> [id |-> 90 + i, name |-> fish_data[1].name]]

InitCatch ==
    /\ GameStateInit
    /\ save_file = NoFile
    /\ current_depth = 100
    /\ descending = TRUE
    /\ horizontal_offset = ClampOffset(0)
    /\ hook_centerx = RodX + ClampOffset(0)
    /\ \E n \in 0..(BASE_HOOK_CAPACITY - 1) :
          /\ caught_fish = HookedBefore(n)
          /\ fm_caught_fish = HookedBefore(n)
    /\ all_fish \in CatchPopulations
    /\ last_spawn_time = 0
    /\ previous_depth = 100
    /\ current_screen = "MAIN_GAME"
    /\ round_active = TRUE
    /\ round_start_time = 16
    /\ round_timer = 1600
    /\ running = TRUE
    /\ clock = 1616
    /\ ret = "None"

\* FishManager.check_catches(mouse_pos, fishing_line), the hook where
\* Game.update put it for this mouse position
CheckCatches(mouse_pos) ==
    /\ hook_centerx = RodX + ClampOffset(mouse_pos.x)
    /\ LET caught == check_catches(all_fish, caught_fish, mouse_pos, HookCenter)
       IN  /\ all_fish' = caught.all_fish
           /\ caught_fish' = caught.caught_fish
           /\ fm_caught_fish' = caught.fm_caught_fish
           /\ ret' = IF caught.caught_any THEN "True" ELSE "False"
    /\ UNCHANGED <<economy, save_file, current_depth, descending, horizontal_offset,
                   hook_centerx, last_spawn_time, previous_depth, game, clock>>

NextCatch == \E mouse_pos \in CatchMousePoints : CheckCatches(mouse_pos)

SpecCatch == InitCatch /\ [][NextCatch]_vars

-----------------------------------------------------------------------------
(* SpecRound: the game from Game.__init__ on, followed for longer than a   *)
(* round of 15000 ms, with a player who holds the mouse still while a      *)
(* round is on (on the fish, so that the hook fills, or away from them, so *)
(* that the timer runs out) and who clicks through the results and the     *)
(* shop before the next frame begins.                                      *)

\* no frame begins after this clock value
MaxClockRound == 15100

\* a save file of a game with one level of round timer and four of hook
\* capacity
TimerGame ==
    JsonFile([coins |-> 0,
              upgrades |-> [line_length |-> 0, hook_capacity |-> 4, round_timer |-> 1],
              power_ups |-> InitialPowerUps,
              unlocked_zones |-> <<"surface">>,
              stats |-> [total_fish_caught |-> 0, total_coins_earned |-> 3150,
                         deepest_depth_reached |-> 0]])

RoundFiles == {NoFile, SavedGame, TimerGame}

InitRound == \E file \in RoundFiles : GameStart(file)

\* the mouse is where the last frame of this round found it: Game.update
\* left its clamped offset from the rod in horizontal_offset, and start_round
\* left 0 there
MouseHeld(mouse_pos) ==
    (current_screen = "MAIN_GAME" /\ round_active /\ horizontal_offset # 0)
    => ClampOffset(mouse_pos.x) = horizontal_offset

HeldFrame(mouse_pos, ms) ==
    /\ current_screen = "MAIN_GAME"
    /\ MouseHeld(mouse_pos)
    /\ Frame(mouse_pos, ms, MaxClockRound)

NextRound ==
    \/ \E mouse_pos \in MousePoints, ms \in FrameMs : HeldFrame(mouse_pos, ms)
    \/ \E mouse_pos \in ClickPoints : Click(mouse_pos)
    \/ Quit

SpecRound == InitRound /\ [][NextRound]_vars

-----------------------------------------------------------------------------
(* SpecProgress: a GameState object under any sequence of calls of its     *)
(* operations, power-ups and statistics included, saved to Config.SAVE_FILE *)
(* and loaded from it, whole or with a field missing.                      *)

\* add_coins is not called once the balance or the coins earned would pass
\* this
MaxEarned == 200

\* no power-up is bought beyond this count
MaxPowerUp == 1

\* update_stats is not called once the fish caught would pass this
MaxFishStat == 3

ProgressCoinAmounts == {100}
ProgressUpgradeNames == {"line_length", "reel_speed"}
PowerUpNames == {"magnet_hook", "extra_life"}
PowerUpCosts == {50}
StatDepths == {250}
StatFish == {3}

\* the records of a file: what json.load returns for the file, and the same
\* with one key missing, with one key of "stats" missing, with no key
WithoutKey(record, key) == Restrict(record, DOMAIN record \ {key})

PartialRecords(record) ==
    { WithoutKey(record, key) : key \in DOMAIN record }
    \cup (IF "stats" \in DOMAIN record
          THEN { [record EXCEPT !.stats = WithoutKey(@, key)] :
                    key \in DOMAIN record.stats }
          ELSE {})
    \cup { Restrict(record, {}) }

\* Config.SAVE_FILE as load_game can find it once save_game wrote saved
ProgressFiles(saved) ==
    IF saved.kind = "json"
    THEN {saved} \cup { JsonFile(record) : record \in PartialRecords(saved.data) }
    ELSE {saved}

\* the other GameState objects a saved record is loaded into
ProgressTargets ==
    { InitialEconomy,
      [coins |-> 75,
       upgrades |-> [line_length |-> 3, hook_capacity |-> 2, round_timer |-> 1],
       power_ups |-> [InitialPowerUps EXCEPT !.depth_rush = 2],
       unlocked_zones |-> <<"surface", "shallows", "mid_water", "deep_sea">>,
       total_fish_caught |-> 9, total_coins_earned |-> 2000,
       deepest_depth_reached |-> 600] }

ProgressAddCoins(amount) ==
    /\ coins + amount <= MaxEarned
    /\ total_coins_earned + amount <= MaxEarned
    /\ add_coins(amount)
    /\ ret' = "None"
    /\ UNCHANGED <<save_file, line, fish_manager, game, clock>>

PurchasePowerUp(power_up_name, cost) ==
    /\ power_up_name \in DOMAIN power_ups => power_ups[power_up_name] < MaxPowerUp
    /\ LET bought == PowerUpResult(EconomyRecord, power_up_name, cost)
       IN  SetEconomy(bought.eco) /\ ret' = bought.ret
    /\ UNCHANGED <<save_file, line, fish_manager, game, clock>>

UsePowerUp(power_up_name) ==
    /\ LET used == UsePowerUpResult(EconomyRecord, power_up_name)
       IN  SetEconomy(used.eco) /\ ret' = used.ret
    /\ UNCHANGED <<save_file, line, fish_manager, game, clock>>

UpdateStats(depth, fish_caught) ==
    /\ total_fish_caught + fish_caught <= MaxFishStat
    /\ SetEconomy(UpdateStatsResult(EconomyRecord, depth, fish_caught))
    /\ ret' = "None"
    /\ UNCHANGED <<save_file, line, fish_manager, game, clock>>

SaveGame ==
    /\ save_game(EconomyRecord)
    /\ ret' = "None"
    /\ UNCHANGED <<economy, line, fish_manager, game, clock>>

\* save_game() of this object, then load_game() of another GameState object
\* whose fields are target; the state goes on with the object loaded
SaveThenLoad(target) ==
    /\ save_game(EconomyRecord)
    /\ LET loaded == LoadResult(JsonFile(SaveData(EconomyRecord)), target)
       IN  SetEconomy(loaded.eco) /\ ret' = loaded.ret
    /\ UNCHANGED <<line, fish_manager, game, clock>>

NextProgress ==
    \/ \E amount \in ProgressCoinAmounts : ProgressAddCoins(amount)
    \/ \E upgrade_name \in ProgressUpgradeNames : PurchaseUpgrade(upgrade_name)
    \/ \E power_up_name \in PowerUpNames, cost \in PowerUpCosts :
          PurchasePowerUp(power_up_name, cost)
    \/ \E power_up_name \in PowerUpNames : UsePowerUp(power_up_name)
    \/ \E depth \in StatDepths, fish_caught \in StatFish : UpdateStats(depth, fish_caught)
    \/ ResetProgress
    \/ SaveGame
    \/ \E file \in ProgressFiles(save_file) : LoadGame(file)
    \/ \E target \in ProgressTargets : SaveThenLoad(target)

SpecProgress == InitEconomy /\ [][NextProgress]_vars

-----------------------------------------------------------------------------
(* SpecGetters: the three getters of a GameState object that holds any     *)
(* upgrade levels purchase_upgrade can leave.                              *)

\* the levels of an upgrade: purchase_upgrade stops at the length of its
\* list of costs
UpgradeLevels(upgrade_name) == 0..Len(UPGRADE_COSTS[upgrade_name])

InitGetters ==
    /\ coins = 0
    /\ upgrades \in { [line_length |-> a, hook_capacity |-> b, round_timer |-> c] :
                        a \in UpgradeLevels("line_length"),
                        b \in UpgradeLevels("hook_capacity"),
                        c \in UpgradeLevels("round_timer") }
    /\ power_ups = InitialPowerUps
    /\ unlocked_zones = UnlockedZonesFor(upgrades)
    /\ total_fish_caught = 0
    /\ total_coins_earned = 0
    /\ deepest_depth_reached = 0
    /\ save_file = NoFile
    /\ FishingLineInit
    /\ FishManagerInit
    /\ GameInit
    /\ clock = 0
    /\ ret = 0

\* ret' is the value returned: a depth in half pixels, a number of fish, a
\* time in milliseconds
GetMaxDepth ==
    /\ ret' = get_max_depth
    /\ UNCHANGED <<economy, save_file, line, fish_manager, game, clock>>

GetHookCapacity ==
    /\ ret' = get_hook_capacity
    /\ UNCHANGED <<economy, save_file, line, fish_manager, game, clock>>

GetRoundDuration ==
    /\ ret' = get_round_duration
    /\ UNCHANGED <<economy, save_file, line, fish_manager, game, clock>>

NextGetters == GetMaxDepth \/ GetHookCapacity \/ GetRoundDuration

SpecGetters == InitGetters /\ [][NextGetters]_vars

-----------------------------------------------------------------------------
(* Claims about the economy, checked under SpecEconomy *)

Kinds == {"line_length", "hook_capacity", "round_timer"}

StatsUnchanged ==
    /\ total_fish_caught' = total_fish_caught
    /\ total_coins_earned' = total_coins_earned
    /\ deepest_depth_reached' = deepest_depth_reached

\* C1: for every upgrade kind k and level L in 0..4, purchase_upgrade(k)
\* called with level[k] = L and coins >= cost_table[k][L] returns true,
\* takes exactly cost_table[k][L] coins, raises level[k] by exactly one and
\* leaves the other two levels, the power-ups and the stats as they were.
C1_PurchaseSucceeds ==
    [][\A k \in Kinds : \A L \in 0..4 :
          (PurchaseUpgrade(k) /\ upgrades[k] = L /\ coins >= UPGRADE_COSTS[k][L + 1])
          => /\ ret' = "True"
             /\ coins' = coins - UPGRADE_COSTS[k][L + 1]
             /\ upgrades'[k] = L + 1
             /\ \A j \in Kinds \ {k} : upgrades'[j] = upgrades[j]
             /\ power_ups' = power_ups
             /\ StatsUnchanged]_vars

\* C1's case: the last purchase succeeded and took the last kind to level 5,
\* so that every kind has been bought at every level 0..4
C1_Witness ==
    /\ ret = "True"
    /\ \A k \in Kinds : upgrades[k] = 5

\* C2: purchase_upgrade(k) returns false and leaves every field of the
\* economy as it was whenever k is no upgrade kind, or level[k] is already
\* 5, or coins < cost_table[k][level[k]].
C2_PurchaseFails ==
    [][\A k \in UpgradeNames :
          (/\ PurchaseUpgrade(k)
           /\ \/ k \notin Kinds
              \/ upgrades[k] = 5
              \/ coins < UPGRADE_COSTS[k][upgrades[k] + 1])
          => /\ ret' = "False"
             /\ UNCHANGED economy]_vars

\* C2's case: a purchase past level 5 has just failed with the balance high
\* enough for any price of the table
C2_Witness ==
    /\ ret = "False"
    /\ upgrades["hook_capacity"] = 5
    /\ coins >= 3200

\* C3: the unlocked-zone list is always the first min(5, line_length + 1)
\* zones of [surface, shallows, mid_water, deep_sea, abyss].
C3_UnlockedFollowsLineLength ==
    unlocked_zones =
        SubSeq(<<"surface", "shallows", "mid_water", "deep_sea", "abyss">>,
               1, Min(5, upgrades["line_length"] + 1))

-----------------------------------------------------------------------------
(* Claims about the hook and the round, checked under Spec, SpecIdle,      *)
(* SpecLine and SpecCatch                                                  *)

\* C4: in every reachable state of the whole game, on every screen, the
\* hook holds at most as many fish as the hook capacity the economy gives
\* at that moment (4 + hook_capacity level).
C4_CaughtWithinCapacity ==
    Len(caught_fish) <= 4 + upgrades["hook_capacity"]

\* C5: in every reachable state of the whole game, on every screen, the
\* hook's depth is between 0 and the maximum depth the economy gives at that
\* moment (300 + 100 * line_length level pixels; depths are in half pixels).
C5_DepthWithinMax ==
    /\ 0 <= current_depth
    /\ current_depth <= 2 * (300 + 100 * upgrades["line_length"])

\* C6: add_caught_fish(fish) appends the fish at the tail of the hook's list
\* and returns true exactly when the list is shorter than the hook capacity
\* and does not hold the fish; otherwise it returns false and leaves the
\* list as it was; either way depth, descending flag and horizontal offset
\* stay as they were.
C6_AddCaughtFish ==
    [][\A fish \in LineFishPool :
          AddCaughtFish(fish)
          => /\ IF /\ Len(caught_fish) < 4 + upgrades["hook_capacity"]
                   /\ \A i \in 1..Len(caught_fish) : caught_fish[i].id # fish.id
                THEN /\ ret' = "True"
                     /\ Len(caught_fish') = Len(caught_fish) + 1
                     /\ SubSeq(caught_fish', 1, Len(caught_fish)) = caught_fish
                     /\ caught_fish'[Len(caught_fish')].id = fish.id
                ELSE /\ ret' = "False"
                     /\ caught_fish' = caught_fish
             /\ current_depth' = current_depth
             /\ descending' = descending
             /\ horizontal_offset' = horizontal_offset]_vars

\* C6's case: a lowered line with a full hook of five has just refused a fish
C6_Witness ==
    /\ ret = "False"
    /\ Len(caught_fish) = 5
    /\ upgrades["hook_capacity"] = 1
    /\ current_depth > 0

RECURSIVE C7_SumOfValues(_)
C7_SumOfValues(fish_seq) ==
    IF fish_seq = << >> THEN 0
    ELSE get_value(Head(fish_seq).name) + C7_SumOfValues(Tail(fish_seq))

\* C7: the step that ends a round raises the coin balance and the lifetime
\* coins earned each by exactly the sum of the values of the fish caught in
\* that round, the fish on the hook (0 when there is none).
C7_RoundPayout ==
    [][(round_active /\ ~round_active')
       => /\ coins' = coins + C7_SumOfValues(caught_fish')
          /\ total_coins_earned' = total_coins_earned + C7_SumOfValues(caught_fish')]_vars

\* C7's case: a round has ended with five fish of two species, four
\* Clownfish (10) and a Yellowtail (25), paid to the saved game's 100 coins
C7_Witness ==
    /\ current_screen = "RESULTS"
    /\ Len(caught_fish) = 5
    /\ \E i, j \in 1..Len(caught_fish) : caught_fish[i].name # caught_fish[j].name
    /\ coins = 100 + C7_SumOfValues(caught_fish)
    /\ coins > 100 + 5

\* the squared distance between the centre of a fish's rect (40 x 20) and
\* the centre of the hook (hook_centerx, 310), and the pointer being inside
\* the fish's rect
ClaimDistance2(fish) ==
    (fish.x + 20 - hook_centerx) * (fish.x + 20 - hook_centerx)
    + (fish.y + 10 - 310) * (fish.y + 10 - 310)

ClaimPointerInside(fish, pointer) ==
    /\ fish.x <= pointer.x /\ pointer.x < fish.x + 40
    /\ fish.y <= pointer.y /\ pointer.y < fish.y + 20

ClaimNewlyCaught(fish) ==
    /\ \E i \in 1..Len(caught_fish') : caught_fish'[i].id = fish.id
    /\ \A i \in 1..Len(all_fish') : all_fish'[i].id # fish.id

\* C8 as claimed: in every check_catches call, every live uncaught fish
\* whose centre is within 30 of the hook's centre is caught in that call,
\* whatever the pointer position, the number of fish in range and the fill
\* of the hook.
C8_AutoCatchAlways ==
    [][\A mouse_pos \in CatchMousePoints :
          CheckCatches(mouse_pos)
          => \A i \in 1..Len(all_fish) :
                (~all_fish[i].caught /\ ClaimDistance2(all_fish[i]) <= 30 * 30)
                => ClaimNewlyCaught(all_fish[i])]_vars

\* C8 as amended: in every check_catches call, every live uncaught fish
\* whose centre is within 30 of the hook's centre is caught in that call,
\* whatever the pointer position, as long as the hook has a free slot when
\* its turn comes: fewer fish that meet a catch condition stand before it in
\* the live list than the hook has free slots at the call.
C8_AutoCatchWhileRoom ==
    [][\A mouse_pos \in CatchMousePoints :
          CheckCatches(mouse_pos)
          => \A i \in 1..Len(all_fish) :
                LET Candidate(j) ==
                      /\ ~all_fish[j].caught
                      /\ \/ ClaimDistance2(all_fish[j]) <= 30 * 30
                         \/ /\ ClaimPointerInside(all_fish[j], mouse_pos)
                            /\ ClaimDistance2(all_fish[j]) <= 80 * 80
                    before == Cardinality({ j \in 1..(i - 1) : Candidate(j) })
                    free == 4 + upgrades["hook_capacity"] - Len(caught_fish)
                IN  (/\ ~all_fish[i].caught
                     /\ ClaimDistance2(all_fish[i]) <= 30 * 30
                     /\ before < free)
                    => ClaimNewlyCaught(all_fish[i])]_vars

\* C8's case: a call has filled the hook with a fish within 30 of it and
\* left another fish within 30 in the live set
C8_Witness ==
    /\ ret = "True"
    /\ Len(caught_fish) = 4
    /\ \E i \in 1..Len(caught_fish) : caught_fish[i].id % 10 \in {1, 2}
    /\ \E i \in 1..Len(all_fish) :
          all_fish[i].caught /\ ClaimDistance2(all_fish[i]) <= 30 * 30

\* C9: no fish is caught while its centre is farther than 80 from the
\* hook's centre, even with the pointer inside its rect; a fish farther
\* than 30 and within 80 is caught only with the pointer inside its rect.
C9_CatchOnlyInRange ==
    [][\A mouse_pos \in CatchMousePoints :
          CheckCatches(mouse_pos)
          => \A i \in 1..Len(all_fish) :
                (~all_fish[i].caught /\ ClaimNewlyCaught(all_fish[i]))
                => /\ ClaimDistance2(all_fish[i]) <= 80 * 80
                   /\ ClaimDistance2(all_fish[i]) > 30 * 30
                      => ClaimPointerInside(all_fish[i], mouse_pos)]_vars

\* C9's case: a call with the pointer at the edge of the screen, inside the
\* fish at distance 80 and the fish at distance 81, has caught the first and
\* left the second
C9_Witness ==
    /\ ret = "True"
    /\ \E i \in 1..Len(caught_fish) : caught_fish[i].id % 10 = 4
    /\ \E i \in 1..Len(all_fish) :
          /\ ~all_fish[i].caught
          /\ all_fish[i].x = -31
          /\ ClaimDistance2(all_fish[i]) = 81 * 81

\* C10: the game starts on MAIN_GAME with no round active and the first
\* frame starts one; the screen changes only from MAIN_GAME to RESULTS when
\* a round ends, from RESULTS to SHOP on a click on the continue button and
\* from SHOP to MAIN_GAME on a click on the start button, which starts a
\* round; a round is active only on MAIN_GAME.
C10_ScreenCycle ==
    /\ current_screen = "MAIN_GAME" /\ ~round_active
    /\ [](round_active => current_screen = "MAIN_GAME")
    /\ [][/\ (current_screen = "MAIN_GAME" /\ ~round_active /\ clock' # clock)
             => (round_active' /\ current_screen' = "MAIN_GAME")
          /\ (current_screen' # current_screen)
             => \/ /\ current_screen = "MAIN_GAME" /\ current_screen' = "RESULTS"
                   /\ round_active /\ ~round_active'
                \/ /\ current_screen = "RESULTS" /\ current_screen' = "SHOP"
                   /\ \E mouse_pos \in ClickPoints :
                         Click(mouse_pos) /\ check_continue_button(mouse_pos)
                \/ /\ current_screen = "SHOP" /\ current_screen' = "MAIN_GAME"
                   /\ round_active'
                   /\ \E mouse_pos \in ClickPoints :
                         Click(mouse_pos) /\ check_start_button(mouse_pos)]_vars

\* C10's case: the cycle has been gone round once, a second round is active
C10_Witness ==
    /\ current_screen = "MAIN_GAME"
    /\ round_active
    /\ round_start_time > 1000 \div FPS
    /\ total_coins_earned > 0
-----------------------------------------------------------------------------
(* Claims about the round controller, checked under SpecRound *)

\* C11: a step ends an active round exactly when it is a frame at whose end
\* the time since the round's start is at least 10000 + 5000 * round_timer
\* level milliseconds or the hook holds as many fish as its capacity
\* (4 + hook_capacity level); no other step ends it, and a frame that leaves
\* the hook at the maximum depth with neither condition true leaves the
\* round active.
C11_RoundEndsOnTimerOrCapacity ==
    [][round_active
       => LET elapsed == clock' - round_start_time
              expired == elapsed >= 10000 + 5000 * upgrades["round_timer"]
              full == Len(caught_fish') >= 4 + upgrades["hook_capacity"]
          IN  /\ ~round_active' <=> (clock' # clock /\ (expired \/ full))
              /\ (/\ current_depth' >= 2 * (300 + 100 * upgrades["line_length"])
                  /\ ~expired /\ ~full)
                 => round_active']_vars

\* C11's case: a round of 15000 ms (round_timer level 1) has ended on its
\* timer, the hook at the maximum depth, reached long before, and not full
C11_Witness ==
    /\ current_screen = "RESULTS"
    /\ ~round_active
    /\ upgrades["round_timer"] = 1
    /\ round_timer >= 15000
    /\ round_timer < 15000 + 1000 \div FPS
    /\ current_depth = 2 * 300
    /\ Len(caught_fish) < 4

\* C12: every step that starts a round, the first frame of the game or a
\* click on the shop's start button, leaves the hook at depth 0, descending,
\* with horizontal offset 0 and nothing on it, no live fish, an empty list
\* of the round's caught fish, and the round active.
C12_RoundStartsClean ==
    [][(~round_active /\ round_active')
       => /\ current_depth' = 0
          /\ descending'
          /\ horizontal_offset' = 0
          /\ caught_fish' = << >>
          /\ all_fish' = << >>
          /\ fm_caught_fish' = << >>
          /\ current_screen' = "MAIN_GAME"]_vars

\* C12's case: a later round has just been started from the shop, after a
\* round in which fish were caught and paid
C12_Witness ==
    /\ round_active
    /\ current_screen = "MAIN_GAME"
    /\ round_start_time = clock
    /\ clock > 1000 \div FPS
    /\ total_coins_earned \notin {0, 400}
    /\ caught_fish = << >>
    /\ fm_caught_fish = << >>
    /\ current_depth = 0

-----------------------------------------------------------------------------
(* Claims about the FishingLine object, checked under SpecLine *)

\* C13: reset() leaves the current depth as it was and full_reset() sets it
\* to 0; both leave the line descending, with horizontal offset 0 and an
\* empty caught sequence.
C13_ResetAndFullReset ==
    [][/\ LineReset
          => /\ current_depth' = current_depth
             /\ descending' /\ horizontal_offset' = 0 /\ caught_fish' = << >>
       /\ LineFullReset
          => /\ current_depth' = 0
             /\ descending' /\ horizontal_offset' = 0 /\ caught_fish' = << >>]_vars

\* C13's case: reset() has cleared a lowered line that was pulled to the
\* left: the depth is kept, the offset is 0 and the hook's rect is still
\* where the last update put it
C13_Witness ==
    /\ current_depth = MaxLineDepth
    /\ horizontal_offset = 0
    /\ hook_centerx = RodX - max_horizontal_range
    /\ descending
    /\ caught_fish = << >>
    /\ ret = "None"

-----------------------------------------------------------------------------
(* Claims about progress, saving and loading, checked under SpecProgress   *)

\* C14: from any state of the economy, reset_progress() leaves coins = 0,
\* the three upgrade levels 0, the four power-up counters 0, unlocked zones
\* [surface] and the three stats 0, so that max depth is 300 (600 half
\* pixels), hook capacity 4 and round duration 10000 ms afterwards.
C14_ResetProgressToInitial ==
    [][ResetProgress
       => /\ coins' = 0
          /\ upgrades' = [line_length |-> 0, hook_capacity |-> 0, round_timer |-> 0]
          /\ power_ups' = [coin_multiplier |-> 0, rare_fish_lure |-> 0,
                           magnet_hook |-> 0, depth_rush |-> 0]
          /\ unlocked_zones' = <<"surface">>
          /\ total_fish_caught' = 0
          /\ total_coins_earned' = 0
          /\ deepest_depth_reached' = 0
          /\ get_max_depth' = 2 * 300
          /\ get_hook_capacity' = 4
          /\ get_round_duration' = 10000]_vars

\* C14's case: progress has been reset after a game with an upgrade, a
\* power-up and statistics was saved
C14_Witness ==
    /\ EconomyRecord = InitialEconomy
    /\ ret = "None"
    /\ save_file.kind = "json"
    /\ save_file.data.upgrades["line_length"] = 1
    /\ save_file.data.power_ups["magnet_hook"] = 1
    /\ save_file.data.stats.total_fish_caught = 3
    /\ save_file.data.stats.deepest_depth_reached = 250

-----------------------------------------------------------------------------
(* Claims about the shop, checked under Spec *)

\* C15: no step taken on MAIN_GAME or RESULTS lowers the coin balance, an
\* upgrade level or the coins earned, so progress is never reset there; a
\* left click on the shop's reset button (the rect 200 x 50 at 300, 515)
\* while the screen is SHOP leaves the economy with its initial values in
\* that very step, the screen still SHOP.
C15_ResetOnlyInShop ==
    [][/\ (\/ coins' < coins
           \/ total_coins_earned' < total_coins_earned
           \/ \E k \in Kinds : upgrades'[k] < upgrades[k])
          => current_screen = "SHOP"
       /\ \A mouse_pos \in ClickPoints :
             (/\ Click(mouse_pos)
              /\ current_screen = "SHOP"
              /\ 300 <= mouse_pos.x /\ mouse_pos.x < 500
              /\ 515 <= mouse_pos.y /\ mouse_pos.y < 565)
             => /\ coins' = 0
                /\ \A k \in Kinds : upgrades'[k] = 0
                /\ \A p \in DOMAIN power_ups' : power_ups'[p] = 0
                /\ unlocked_zones' = <<"surface">>
                /\ total_fish_caught' = 0
                /\ total_coins_earned' = 0
                /\ deepest_depth_reached' = 0
                /\ current_screen' = "SHOP"]_vars

\* C15's case: the progress of a saved game with two upgrades has been
\* reset in the shop, after a round that paid coins, and the reset state
\* written to the save file
C15_Witness ==
    /\ current_screen = "SHOP"
    /\ EconomyRecord = InitialEconomy
    /\ save_file = JsonFile(SaveData(InitialEconomy))
    /\ caught_fish # << >>
    /\ clock > 1000

\* C16: saving an economy and then loading the saved record into any
\* GameState object gives back the economy that was saved, field for field:
\* coins, upgrades, power-ups, unlocked zones and the three stats; the load
\* returns true.
C16_SaveLoadRoundTrip ==
    [][\A target \in ProgressTargets :
          SaveThenLoad(target)
          => /\ ret' = "True"
             /\ coins' = coins
             /\ upgrades' = upgrades
             /\ power_ups' = power_ups
             /\ unlocked_zones' = unlocked_zones
             /\ total_fish_caught' = total_fish_caught
             /\ total_coins_earned' = total_coins_earned
             /\ deepest_depth_reached' = deepest_depth_reached]_vars

\* C16's case: an economy with coins, an upgrade, a second zone, a power-up
\* and statistics has been saved and loaded back
C16_Witness ==
    /\ ret = "True"
    /\ save_file = JsonFile(SaveData(EconomyRecord))
    /\ coins = 50
    /\ upgrades["line_length"] = 1
    /\ unlocked_zones = <<"surface", "shallows">>
    /\ power_ups["magnet_hook"] = 1
    /\ total_fish_caught = 3
    /\ total_coins_earned = 200
    /\ deepest_depth_reached = 250

\* C17: loading a record that lacks a field (coins, upgrades, power_ups,
\* unlocked_zones, stats, or one stat inside stats) returns true and leaves
\* each missing field at its initial value (0, all levels 0, all power-ups
\* 0, [surface], stats 0), whatever the object held before the load.
C17_MissingFieldsGetInitialValues ==
    [][\A file \in ProgressFiles(save_file) :
          (LoadGame(file) /\ file.kind = "json")
          => LET Missing(key) == key \notin DOMAIN file.data
                 MissingStat(key) ==
                     Missing("stats") \/ key \notin DOMAIN file.data.stats
             IN  /\ ret' = "True"
                 /\ Missing("coins") => coins' = 0
                 /\ Missing("upgrades")
                    => upgrades' = [line_length |-> 0, hook_capacity |-> 0,
                                    round_timer |-> 0]
                 /\ Missing("power_ups")
                    => power_ups' = [coin_multiplier |-> 0, rare_fish_lure |-> 0,
                                     magnet_hook |-> 0, depth_rush |-> 0]
                 /\ Missing("unlocked_zones") => unlocked_zones' = <<"surface">>
                 /\ MissingStat("total_fish_caught") => total_fish_caught' = 0
                 /\ MissingStat("total_coins_earned") => total_coins_earned' = 0
                 /\ MissingStat("deepest_depth_reached")
                    => deepest_depth_reached' = 0]_vars

-----------------------------------------------------------------------------
(* Claims about the getters, checked under SpecGetters *)

\* C18: for all levels 0..5 of the three upgrades, get_max_depth() returns
\* 300 + 100 * line_length level (in half pixels here, so twice that),
\* get_hook_capacity() returns 4 + hook_capacity level and
\* get_round_duration() returns 10000 + 5000 * round_timer level; each
\* reads its own level only and no getter changes the state.
C18_GettersAreLinear ==
    [][/\ GetMaxDepth
          => ret' = 2 * (300 + 100 * upgrades["line_length"])
       /\ GetHookCapacity
          => ret' = 4 + upgrades["hook_capacity"]
       /\ GetRoundDuration
          => ret' = 10000 + 5000 * upgrades["round_timer"]
       /\ (GetMaxDepth \/ GetHookCapacity \/ GetRoundDuration)
          => UNCHANGED <<economy, save_file, line, fish_manager, game, clock>>]_vars

\* C18's case: get_hook_capacity() has returned 9 in a game with
\* hook_capacity at level 5 and the other two upgrades at levels 0 and 3
C18_Witness ==
    /\ ret = 9
    /\ upgrades = [line_length |-> 0, hook_capacity |-> 5, round_timer |-> 3]

-----------------------------------------------------------------------------
(* Claims about the fish the hook refuses, checked under SpecRound *)

\* C19: in every reachable state no fish of the live set has its caught
\* flag set: a fish the full hook refused stays an uncaught live fish.
C19_NoLiveFishMarkedCaught ==
    \A i \in 1..Len(all_fish) : ~all_fish[i].caught

-----------------------------------------------------------------------------
(* Claims about the two lists of caught fish, checked under SpecRound *)

\* C20: in every reachable state the round's caught list of the fish
\* manager and the caught sequence of the hook hold the same fish in the
\* same order, and no fish is twice in either.
C20_CaughtListsAgree ==
    /\ Len(fm_caught_fish) = Len(caught_fish)
    /\ \A i \in 1..Len(caught_fish) : fm_caught_fish[i].id = caught_fish[i].id
    /\ \A i, j \in 1..Len(caught_fish) :
          caught_fish[i].id = caught_fish[j].id => i = j
    /\ \A i, j \in 1..Len(fm_caught_fish) :
          fm_caught_fish[i].id = fm_caught_fish[j].id => i = j

\* C20's case: a second round is on with fish on the hook, after a first
\* round whose catch was paid and cleared
C20_Witness ==
    /\ round_active
    /\ round_start_time > 1000 \div FPS
    /\ total_coins_earned \notin {0, 400, 3150}
    /\ Len(caught_fish) >= 2
    /\ caught_fish = fm_caught_fish

-----------------------------------------------------------------------------
(* Claims about the settling of a round, checked under Spec *)

\* C21: the coin balance and the coins earned grow only in the step that
\* ends an active round on MAIN_GAME, and there by the value of the fish of
\* that round, once; no step on RESULTS or SHOP and no frame after the end
\* of the round credits coins, and no round is started again while it is
\* active, so that each round is settled exactly once.
C21_RoundSettledOnce ==
    [][/\ (coins' > coins \/ total_coins_earned' # total_coins_earned)
          => \/ /\ round_active /\ ~round_active'
                /\ current_screen = "MAIN_GAME"
                /\ total_coins_earned' = total_coins_earned + C7_SumOfValues(caught_fish')
                /\ coins' = coins + C7_SumOfValues(caught_fish')
             \/ /\ current_screen = "SHOP"
                /\ coins' = 0 /\ total_coins_earned' = 0
       /\ (round_active /\ ~round_active') => current_screen' = "RESULTS"
       /\ (round_active /\ round_active') => round_start_time' = round_start_time]_vars

\* C21's case: a round of the saved game has been settled, five fish paid
\* once, and frames and clicks have followed on RESULTS and in the SHOP
C21_Witness ==
    /\ current_screen = "SHOP"
    /\ ~round_active
    /\ Len(caught_fish) = 5
    /\ total_coins_earned = 400 + C7_SumOfValues(caught_fish)
    /\ coins = 100 + C7_SumOfValues(caught_fish)
    /\ clock >= round_start_time + round_timer + 2 * (1000 \div FPS)

-----------------------------------------------------------------------------
(* Claims about the descent of the hook, checked under SpecRound *)

\* C22: in every step taken while a round is active the hook keeps
\* descending and its depth does not decrease: a frame adds the line speed
\* (one half pixel) until the depth is the max depth of the line, and from
\* then on leaves it exactly there; any other step leaves the depth alone.
C22_DepthNeverDecreases ==
    [][round_active =>
          /\ descending /\ descending'
          /\ current_depth' >= current_depth
          /\ current_depth <= get_max_depth
          /\ current_depth' =
                IF clock' = clock THEN current_depth
                ELSE IF current_depth < get_max_depth THEN current_depth + 1
                ELSE get_max_depth]_vars

\* C22's case: the hook is at the end of the line in an active round and
\* was there in the frame before as well
C22_Witness ==
    /\ round_active
    /\ descending
    /\ current_depth = get_max_depth
    /\ previous_depth = current_depth

-----------------------------------------------------------------------------
(* SpecSpawn: FishManager.spawn_fish called on an empty group, for every   *)
(* line_length level with the zones purchase_upgrade unlocks at it, every  *)
(* depth the hook takes at that level and every draw of the zone and of    *)
(* the species.                                                            *)

\* the number of fish spawn_fish is called for
MaxSpawned == 1

\* the draws of random.choice(available_zones): at most three zones
AllZoneDraws == 0..2

\* the draws of random.choice(valid_fish): at most nine species
AllSpeciesDraws == 0..(Len(fish_data) - 1)

\* the draws of one call of spawn_fish
SpawnDraws ==
    [zone : AllZoneDraws, species : AllSpeciesDraws,
     direction : FishDirections, speed : FishSpeeds, row : SpawnRows]

\* ret before any call
NoSpawn ==
    [found_zone |-> "", current_zone |-> "", available_zones |-> << >>,
     zone_name |-> "", valid_fish |-> << >>]

InitSpawn ==
    /\ coins = 0
    /\ upgrades \in { [InitialUpgrades EXCEPT !["line_length"] = level] :
                        level \in UpgradeLevels("line_length") }
    /\ power_ups = InitialPowerUps
    /\ unlocked_zones = UnlockedZonesFor(upgrades)
    /\ total_fish_caught = 0
    /\ total_coins_earned = 0
    /\ deepest_depth_reached = 0
    /\ save_file = NoFile
    /\ current_depth \in 0..get_max_depth
    /\ descending = TRUE
    /\ horizontal_offset = 0
    /\ hook_centerx = RodX
    /\ caught_fish = << >>
    /\ FishManagerInit
    /\ GameInit
    /\ clock = 0
    /\ ret = NoSpawn

\* one call of spawn_fish(current_depth); ret' holds the locals of the call
SpawnFish ==
    /\ Len(all_fish) < MaxSpawned
    /\ unlocked_zones # << >>
    /\ \E d \in SpawnDraws :
          LET q == SpawnDraw(current_depth, unlocked_zones, d)
          IN  /\ all_fish' = Spawned(all_fish, q)
              /\ ret' = [found_zone |-> ZoneAtDepth(current_depth),
                         current_zone |-> q.current_zone,
                         available_zones |-> q.available_zones,
                         zone_name |-> q.zone_name,
                         valid_fish |-> q.valid_fish]
    /\ UNCHANGED <<economy, save_file, line, fm_caught_fish, last_spawn_time,
                   previous_depth, game, clock>>

NextSpawn == SpawnFish

SpecSpawn == InitSpawn /\ [][NextSpawn]_vars

-----------------------------------------------------------------------------
(* Claims about the spawning of fish, checked under SpecSpawn *)

\* the native zone of the species called name
NativeZone(name) ==
    LET i == CHOOSE j \in 1..Len(fish_data) : fish_data[j].name = name
    IN  fish_data[i].depth_range

\* C23: at every line_length level 0..5 and every depth from 0 to the max
\* depth of the level, the native zone of every fish spawned is one of the
\* unlocked zones.
C23_SpawnedFishAreUnlocked ==
    \A i \in 1..Len(all_fish) :
        NativeZone(all_fish[i].name) \in Range(unlocked_zones)

\* C24: in a call of spawn_fish at a depth greater than 500 the zone found
\* for the depth is abyss, and abyss, when unlocked, is a candidate zone.
C24_AbyssBelow500 ==
    (all_fish # << >> /\ current_depth > 2 * 500)
    => /\ ret.found_zone = "abyss"
       /\ "abyss" \in Range(unlocked_zones)
          => "abyss" \in Range(ret.available_zones)

\* C25: every depth the hook takes from 0 to 500, a multiple of the line
\* speed, lies in the interval of exactly one zone, so that the lookup of
\* spawn_fish does not fall to its default, and the zone found never comes
\* earlier in the list of zones than the zone found for a smaller depth.
C25_ZonesPartitionDepths ==
    (all_fish # << >> /\ current_depth <= 2 * 500)
    => /\ Cardinality(ZoneHits(current_depth)) = 1
       /\ \A depth \in 0..current_depth :
             IndexOf(zone_list, ZoneAtDepth(depth))
                <= IndexOf(zone_list, ret.found_zone)

\* the candidate zones as C26 words them, around the zone current
C26_Candidates(current) ==
    LET i == IndexOf(zone_list, current)
    IN  {current}
        \cup { zone_list[j] : j \in { k \in {i - 1, i + 1} :
                    /\ k \in 1..Len(zone_list)
                    /\ zone_list[k] \in Range(unlocked_zones) } }

\* C26: the zone a spawn is drawn from is one of the current zone, the
\* zone above it and the zone below it when unlocked, the current zone
\* being the first unlocked zone when the zone of the depth is locked; it
\* is an unlocked zone, at most one step from the current zone.
C26_ZoneFromCandidates ==
    all_fish # << >>
    => LET current == IF ret.found_zone \in Range(unlocked_zones)
                      THEN ret.found_zone ELSE unlocked_zones[1]
           Step(a, b) == IndexOf(zone_list, a) - IndexOf(zone_list, b)
       IN  /\ ret.current_zone = current
           /\ Range(ret.available_zones) = C26_Candidates(current)
           /\ ret.zone_name \in C26_Candidates(current)
           /\ ret.zone_name \in Range(unlocked_zones)
           /\ Step(ret.zone_name, current) \in {-1, 0, 1}

\* C26's case: the zone of the depth is locked, the first unlocked zone
\* has replaced it, and the spawn is drawn from the zone below that one
C26_Witness ==
    /\ all_fish # << >>
    /\ ret.found_zone = "mid_water"
    /\ ret.found_zone \notin Range(unlocked_zones)
    /\ ret.current_zone = "surface"
    /\ ret.zone_name = "shallows"

\* C27: a fish spawned at a depth of at most 500 is of a species native to
\* the zone chosen for the spawn; at a depth greater than 500 a call of
\* spawn_fish can spawn each of the nine species.
C27_SpeciesOfTheZone ==
    /\ (all_fish # << >> /\ current_depth <= 2 * 500)
       => NativeZone(all_fish[Len(all_fish)].name) = ret.zone_name
    /\ (all_fish = << >> /\ current_depth > 2 * 500)
       => \A i \in 1..Len(fish_data) :
             \E d \in SpawnDraws :
                LET population ==
                      Spawned(all_fish, SpawnDraw(current_depth, unlocked_zones, d))
                IN  /\ population # << >>
                    /\ population[1].name = fish_data[i].name

\* C27's case: below 500 a species has been spawned whose native zone is
\* not the zone chosen
C27_Witness ==
    /\ all_fish # << >>
    /\ current_depth > 2 * 500
    /\ ret.zone_name = "shallows"
    /\ all_fish[1].name = "Kraken"

-----------------------------------------------------------------------------
(* SpecLoad: load_game called on a new GameState object, and again on the  *)
(* object a load has left, for a save file that is absent, unparseable, a  *)
(* JSON value of another shape than save_game writes, or a record with     *)
(* some fields.                                                            *)

\* the records save_game wrote in some games
LoadRecords ==
    SavedRecords \cup {SavedGame.data, TimerGame.data}
    \cup { SaveData(target) : target \in ProgressTargets }

\* Config.SAVE_FILE as load_game finds it
LoadFiles ==
    {NoFile, CorruptFile, JsonFile(NotADict)}
    \cup { JsonFile(record) : record \in LoadRecords }
    \cup { JsonFile([record EXCEPT !.stats = NotADict]) : record \in LoadRecords }
    \cup UNION { { JsonFile(partial) : partial \in PartialRecords(record) } :
                  record \in LoadRecords }

NextLoad == \E file \in LoadFiles : LoadGame(file)

SpecLoad == InitEconomy /\ [][NextLoad]_vars

\* C28: a call of load_game that fails, on a file that is missing or
\* corrupt, returns False and leaves every field of the object at its
\* initial value; no field holds a value of the bad record.
C28_FailedLoadLeavesDefaults ==
    [][\A file \in LoadFiles :
          (LoadGame(file) /\ ret' = "False")
          => /\ coins' = InitialEconomy.coins
             /\ upgrades' = InitialEconomy.upgrades
             /\ power_ups' = InitialEconomy.power_ups
             /\ unlocked_zones' = InitialEconomy.unlocked_zones
             /\ total_fish_caught' = InitialEconomy.total_fish_caught
             /\ total_coins_earned' = InitialEconomy.total_coins_earned
             /\ deepest_depth_reached' = InitialEconomy.deepest_depth_reached]_vars

-----------------------------------------------------------------------------
(* Claims about the coins of the whole game, checked under Spec *)

\* the coins paid for the levels held of the upgrade called upgrade_name
C29_Paid(upgrade_name) ==
    LET Sum[n \in 0..Len(UPGRADE_COSTS[upgrade_name])] ==
          IF n = 0 THEN 0 ELSE Sum[n - 1] + UPGRADE_COSTS[upgrade_name][n]
    IN  Sum[upgrades[upgrade_name]]

\* C29: in every state of a game played through rounds, purchases and
\* resets, the coin balance and the costs paid for the levels held add up
\* to the coins earned.
C29_CoinsConserved ==
    coins + C29_Paid("line_length") + C29_Paid("hook_capacity")
          + C29_Paid("round_timer")
        = total_coins_earned

\* C29's case: the coins earned in a round have paid, in the shop, for a
\* level of the round timer
C29_Witness ==
    /\ current_screen = "SHOP"
    /\ upgrades["round_timer"] = 1
    /\ total_coins_earned > 400
    /\ coins < 100

-----------------------------------------------------------------------------
(* SpecLive: the whole game with the frames of Game.run kept coming. The   *)
(* loop of Game.run calls update and clock.tick(FPS) in every turn, and    *)
(* the clock value update samples has advanced by then: weak fairness of   *)
(* the advance of the clock. The window is not closed.                     *)

\* no round starts after this clock value
MaxClockLive == 5300

\* the last clock value a frame of ms milliseconds may end at: a frame of
\* an active round begins before the timer of the round has run out (the
\* frame that finds it run out ends the round), a frame that starts a round
\* ends at MaxClockLive at the latest
LiveLimit(ms) ==
    IF round_active
    THEN round_start_time + get_round_duration + ms - 1
    ELSE MaxClockLive

\* a frame can be taken on MAIN_GAME
LiveGuard(mouse_pos, ms) ==
    /\ running
    /\ current_screen = "MAIN_GAME"
    /\ MouseHeld(mouse_pos)
    /\ clock + ms <= LiveLimit(ms)

LiveFrame(mouse_pos, ms) ==
    /\ LiveGuard(mouse_pos, ms)
    /\ Frame(mouse_pos, ms, LiveLimit(ms))

\* clock.tick(FPS) and pygame.time.get_ticks(): the clock value of the next
\* frame
ClockTick ==
    \E mouse_pos \in MousePoints, ms \in FrameMs :
        LiveGuard(mouse_pos, ms) /\ clock' = clock + ms

LiveClick(mouse_pos) ==
    /\ clock <= MaxClockLive
    /\ Click(mouse_pos)

NextLive ==
    \/ \E mouse_pos \in MousePoints, ms \in FrameMs : LiveFrame(mouse_pos, ms)
    \/ \E mouse_pos \in ClickPoints : LiveClick(mouse_pos)

SpecLive == Init /\ [][NextLive]_vars /\ WF_clock(ClockTick)

\* C30: with the frames kept coming and the clock advancing, every state
\* with an active round is followed by a state on the RESULTS screen with
\* no round active.
C30_RoundEventuallyEnds ==
    round_active ~> (~round_active /\ current_screen = "RESULTS")

\* C30's case: a round has ended on its timer with no fish on the hook and
\* the hook at the end of the line
C30_Witness ==
    /\ current_screen = "RESULTS"
    /\ ~round_active
    /\ caught_fish = << >>
    /\ current_depth = get_max_depth
    /\ round_timer >= get_round_duration

====
